---- MODULE Spec2Model ----
(***************************************************************************)
(* A model of the FUSE relay server of src/server.go: the read loop of     *)
(* server.Serve, the goroutine it starts per request                       *)
(* (server.handleFuseRequest), the provider (FileSystem) calls, the clock  *)
(* and the replies sent on each request.                                   *)
(*                                                                         *)
(* Requests are numbered in the order Serve read them: request i is        *)
(* reqs[i], and every per-request variable is a sequence indexed the same  *)
(* way.  Time is an integer; time.Time.Sub is integer subtraction (its     *)
(* int64 saturation is far outside the values used here).                  *)
(***************************************************************************)
EXTENDS Integers, Sequences, FiniteSets, TLC

VARIABLES
    nIssued,    \* number of c.ReadRequest() calls Serve has made
    delivered,  \* the requests the transport has handed out, in its order
    nReads,     \* number of c.ReadRequest() calls that have returned
    readResult, \* the error the latest ReadRequest returned: "nil", "EOF" or
                \* one of TransportErrors; "none" before the first return
    servePc,    \* "reading": Serve is in its loop, blocked in c.ReadRequest();
                \* "returned": Serve has returned
    serveErr,   \* <<>> while Serve runs; <<"nil">> or <<wrapped error>> after
    reqs,       \* reqs[i]: the request the i-th goroutine was started with
    pc,         \* pc[i]: position of the goroutine handling reqs[i]
    calls,      \* calls[i]: the provider calls made for reqs[i], in order
    presult,    \* presult[i]: <<>> or <<what the provider call returned>>
    replies,    \* replies[i]: the Respond/RespondError calls on reqs[i]
    nowReads,   \* nowReads[i]: the values s.clock.Now() returned to handler i
    converted,  \* converted[i]: number of convertAttributes calls of handler i
    logged,     \* logged[i]: what handler i wrote to s.logger
    clock       \* the current time, what s.clock.Now() returns

vars == <<nIssued, delivered, nReads, readResult, servePc, serveErr, reqs,
          pc, calls, presult, replies, nowReads, converted, logged, clock>>

-----------------------------------------------------------------------------
(* Bounds of the model *)

MaxReqs == 2    \* requests read by Serve before the connection ends
MaxTime == 2    \* the clock runs over 0..MaxTime
MaxExp == 5     \* expiration times the provider returns: 0..MaxExp

-----------------------------------------------------------------------------
(* Values on the wire and in the provider *)

ENOSYS == "ENOSYS"

\* Errors a FileSystem method may return (NotImplementedFileSystem returns
\* ENOSYS from every method).
ProviderErrors == {"ENOENT", ENOSYS}

\* Errors of c.ReadRequest() other than io.EOF.
TransportErrors == {"EBADF", "ENODEV"}

\* bazilfuse.Header: the fields the server reads.  Node 1 is the root inode.
RootHeader == [Node |-> 1, Uid |-> 10, Gid |-> 20]

Headers == {RootHeader, [Node |-> 2, Uid |-> 11, Gid |-> 21]}

\* The requests c.ReadRequest() can return.  "Mkdir" stands for every request
\* type that handleFuseRequest has no case for.
WireRequests ==
    [Kind : {"Init", "Statfs", "Getattr", "Mkdir"}, Header : Headers]
    \cup {[Kind |-> "Lookup", Header |-> h,
           Name |-> IF h.Node = 1 THEN "missing" ELSE "a"] : h \in Headers}
    \cup [Kind : {"Open"}, Header : Headers, Dir : BOOLEAN, Flags : {4}]
    \cup [Kind : {"Read"}, Header : Headers, Dir : BOOLEAN, Handle : {5},
          Offset : {6}, Size : {7}]

\* The requests on the root inode: one per request type and value of Dir.
RootRequests == {r \in WireRequests : r.Header = RootHeader}

\* The inodes a provider may report, each with its attributes.
Children == {3, 4}

AttributesOf(inode) ==
    [Size |-> 10 * inode, Mode |-> 10 * inode + 1, Atime |-> 10 * inode + 2,
     Mtime |-> 10 * inode + 3, Crtime |-> 10 * inode + 4,
     Uid |-> 10 * inode + 5, Gid |-> 10 * inode + 6]

Expirations == 0..MaxExp

\* What a successful provider call may return, by method.
ProviderResponses(op) ==
    CASE op = "Init" -> [Ack : BOOLEAN]
      [] op = "LookUpInode" ->
            {[Child |-> c, Generation |-> c + 5, Attributes |-> AttributesOf(c),
              AttributesExpiration |-> a, EntryExpiration |-> e] :
                c \in Children, a \in Expirations, e \in Expirations}
      [] op = "GetInodeAttributes" ->
            {[Attributes |-> AttributesOf(c), AttributesExpiration |-> a] :
                c \in Children, a \in Expirations}
      [] op = "OpenDir" -> [Handle : {50, 51}]
      [] op = "ReadDir" -> [Data : {<<>>, <<60, 61>>}]
      [] OTHER -> {}

\* The responses of a provider that answers each method the same way every
\* time: one child, facts that expire at MaxExp, one handle, one listing.
FixedResponses(op) ==
    CASE op = "Init" -> {[Ack |-> TRUE]}
      [] op = "LookUpInode" ->
            {[Child |-> 3, Generation |-> 8, Attributes |-> AttributesOf(3),
              AttributesExpiration |-> MaxExp, EntryExpiration |-> MaxExp]}
      [] op = "GetInodeAttributes" ->
            {[Attributes |-> AttributesOf(3), AttributesExpiration |-> MaxExp]}
      [] op = "OpenDir" -> {[Handle |-> 50]}
      [] op = "ReadDir" -> {[Data |-> <<60, 61>>]}
      [] OTHER -> {}

\* The (resp, err) pairs a provider call may return, given the responses it
\* gives on success.
Results(responses) ==
    {[err |-> "nil", resp |-> <<r>>] : r \in responses}
    \cup {[err |-> e, resp |-> <<>>] : e \in ProviderErrors}

ProviderResults(op) == Results(ProviderResponses(op))

FixedResults(op) == Results(FixedResponses(op))

-----------------------------------------------------------------------------
(* The type translation of handleFuseRequest *)

\* Lines 75-78.
ConvertInitRequest(typed) ==
    [Op |-> "Init", Uid |-> typed.Header.Uid, Gid |-> typed.Header.Gid]

\* Lines 103-106.
ConvertLookupRequest(typed) ==
    [Op |-> "LookUpInode", Parent |-> typed.Header.Node, Name |-> typed.Name]

\* Lines 130-132.
ConvertGetattrRequest(typed) ==
    [Op |-> "GetInodeAttributes", Inode |-> typed.Header.Node]

\* Lines 160-163.
ConvertOpenRequest(typed) ==
    [Op |-> "OpenDir", Inode |-> typed.Header.Node, Flags |-> typed.Flags]

\* A ReadDirRequest literal with the handle and the offset, both 64-bit
\* integers, taken from each other's field.
ConvertReadRequestSwapped(typed) ==
    [Op |-> "ReadDir", Inode |-> typed.Header.Node, Handle |-> typed.Offset,
     Offset |-> typed.Handle, Size |-> typed.Size]

\* Lines 190-195.
ConvertReadRequest(typed) ==
    [Op |-> "ReadDir", Inode |-> typed.Header.Node, Handle |-> typed.Handle,
     Offset |-> typed.Offset, Size |-> typed.Size]

\* A conversion that fills Atime and Mtime, both time.Time, from each
\* other's field.
convertAttributesSwapped(inode, attr) ==
    [Inode |-> inode, Size |-> attr.Size, Mode |-> attr.Mode,
     Atime |-> attr.Mtime, Mtime |-> attr.Atime, Crtime |-> attr.Crtime,
     Uid |-> attr.Uid, Gid |-> attr.Gid]

\* Lines 219-230.
convertAttributes(inode, attr) ==
    [Inode |-> inode, Size |-> attr.Size, Mode |-> attr.Mode,
     Atime |-> attr.Atime, Mtime |-> attr.Mtime, Crtime |-> attr.Crtime,
     Uid |-> attr.Uid, Gid |-> attr.Gid]

\* A validity that reports the absolute expiration time, without the clock.
SubIgnoringNow(t, u) == t

\* time.Time.Sub as used on lines 121, 122 and 145: t - u, with no clamping.
Sub(t, u) == t - u


\* Lines 89, 97, 117-123, 143-146, 174-176, 206-208: the wire responses.
InitResponse == [Kind |-> "InitResponse"]

\* Line 97: &bazilfuse.StatfsResponse{}, every field at its zero value.
StatfsResponse ==
    [Kind |-> "StatfsResponse", Blocks |-> 0, Bfree |-> 0, Bavail |-> 0,
     Files |-> 0, Ffree |-> 0, Bsize |-> 0, Namelen |-> 0, Frsize |-> 0]

\* A response literal whose EntryValid field is evaluated before AttrValid:
\* the first clock reading goes to EntryValid and the second to AttrValid.
LookupResponseEntryFirst(resp, attrNow, entryNow) ==
    [Kind |-> "LookupResponse",
     Node |-> resp.Child,
     Generation |-> resp.Generation,
     Attr |-> convertAttributes(resp.Child, resp.Attributes),
     AttrValid |-> Sub(resp.AttributesExpiration, entryNow),
     EntryValid |-> Sub(resp.EntryExpiration, attrNow)]

\* Lines 117-123: AttrValid is computed from the first clock reading of the
\* literal, EntryValid from the second.
LookupResponse(resp, attrNow, entryNow) ==
    [Kind |-> "LookupResponse",
     Node |-> resp.Child,
     Generation |-> resp.Generation,
     Attr |-> convertAttributes(resp.Child, resp.Attributes),
     AttrValid |-> Sub(resp.AttributesExpiration, attrNow),
     EntryValid |-> Sub(resp.EntryExpiration, entryNow)]

GetattrResponse(req, resp, now) ==
    [Kind |-> "GetattrResponse",
     Attr |-> convertAttributes(req.Inode, resp.Attributes),
     AttrValid |-> Sub(resp.AttributesExpiration, now)]

OpenResponse(resp) == [Kind |-> "OpenResponse", Handle |-> resp.Handle]

ReadResponse(resp) == [Kind |-> "ReadResponse", Data |-> resp.Data]

\* typed.Respond(fuseResp) and typed.RespondError(err), as seen by the
\* transport: one more reply recorded on the request.
Respond(rs, fuseResp) == Append(rs, [Type |-> "Respond", Resp |-> fuseResp])

RespondError(rs, err) == Append(rs, [Type |-> "RespondError", Err |-> err])

-----------------------------------------------------------------------------
(* Initial state: newServer has returned and Serve has entered its loop. *)

Init ==
    /\ nIssued = 1
    /\ delivered = <<>>
    /\ nReads = 0
    /\ readResult = "none"
    /\ servePc = "reading"
    /\ serveErr = <<>>
    /\ reqs = <<>>
    /\ pc = <<>>
    /\ calls = <<>>
    /\ presult = <<>>
    /\ replies = <<>>
    /\ nowReads = <<>>
    /\ converted = <<>>
    /\ logged = <<>>
    /\ clock = 0

Tasks == 1..Len(reqs)

-----------------------------------------------------------------------------
(* server.Serve *)

\* A Serve that forwards the error of ReadRequest as it is.
UnwrappedReadError(err) == <<err>>

\* fmt.Errorf("Conn.ReadRequest: %v", err), line 55.
WrapReadError(err) == <<"Conn.ReadRequest", err>>

\* A Serve without the io.EOF test of lines 48-51: EOF is forwarded like any
\* other error.
EOFResultForwarded == <<"Conn.ReadRequest", "EOF">>

\* Lines 48-51: the value Serve returns on io.EOF.
EOFResult == "nil"

\* A Serve with admission control: it takes the next request from the
\* transport only when no handler is running.
ReadRequestOkWhenIdle(fuseReq) ==
    /\ servePc = "reading"
    /\ Len(reqs) < MaxReqs
    /\ \A i \in 1..Len(pc) : pc[i] = "done"
    /\ delivered' = Append(delivered, fuseReq)
    /\ nReads' = nReads + 1
    /\ nIssued' = nIssued + 1
    /\ readResult' = "nil"
    /\ reqs' = Append(reqs, fuseReq)
    /\ pc' = Append(pc, "spawned")
    /\ calls' = Append(calls, <<>>)
    /\ presult' = Append(presult, <<>>)
    /\ replies' = Append(replies, <<>>)
    /\ nowReads' = Append(nowReads, <<>>)
    /\ converted' = Append(converted, 0)
    /\ logged' = Append(logged, <<>>)
    /\ UNCHANGED <<servePc, serveErr, clock>>

\* A Serve that puts the goroutine of the request it just read in front of
\* the goroutines it started before.
ReadRequestOkSpawnFirst(fuseReq) ==
    /\ servePc = "reading"
    /\ Len(reqs) < MaxReqs
    /\ delivered' = Append(delivered, fuseReq)
    /\ nReads' = nReads + 1
    /\ nIssued' = nIssued + 1
    /\ readResult' = "nil"
    /\ reqs' = <<fuseReq>> \o reqs
    /\ pc' = <<"spawned">> \o pc
    /\ calls' = <<<<>>>> \o calls
    /\ presult' = <<<<>>>> \o presult
    /\ replies' = <<<<>>>> \o replies
    /\ nowReads' = <<<<>>>> \o nowReads
    /\ converted' = <<0>> \o converted
    /\ logged' = <<<<>>>> \o logged
    /\ UNCHANGED <<servePc, serveErr, clock>>

\* Lines 43 and 59: the transport hands out fuseReq, ReadRequest returns it
\* with a nil error, Serve starts a goroutine for it and loops back into
\* ReadRequest.  Between the return and the next call Serve touches nothing a
\* handler can see, so the iteration is one step.
ReadRequestOk(fuseReq) ==
    /\ servePc = "reading"
    /\ Len(reqs) < MaxReqs
    /\ delivered' = Append(delivered, fuseReq)
    /\ nReads' = nReads + 1
    /\ nIssued' = nIssued + 1
    /\ readResult' = "nil"
    /\ reqs' = Append(reqs, fuseReq)
    /\ pc' = Append(pc, "spawned")
    /\ calls' = Append(calls, <<>>)
    /\ presult' = Append(presult, <<>>)
    /\ replies' = Append(replies, <<>>)
    /\ nowReads' = Append(nowReads, <<>>)
    /\ converted' = Append(converted, 0)
    /\ logged' = Append(logged, <<>>)
    /\ UNCHANGED <<servePc, serveErr, clock>>

\* A Serve that waits for its handlers, as with a sync.WaitGroup, before it
\* returns on io.EOF.
ReadRequestEOFWaits ==
    /\ servePc = "reading"
    /\ \A i \in 1..Len(pc) : pc[i] = "done"
    /\ nReads' = nReads + 1
    /\ readResult' = "EOF"
    /\ servePc' = "returned"
    /\ serveErr' = <<EOFResult>>
    /\ UNCHANGED <<nIssued, delivered, reqs, pc, calls, presult, replies,
                   nowReads, converted, logged, clock>>

\* Lines 43-51: ReadRequest returns io.EOF; Serve returns nil.
ReadRequestEOF ==
    /\ servePc = "reading"
    /\ nReads' = nReads + 1
    /\ readResult' = "EOF"
    /\ servePc' = "returned"
    /\ serveErr' = <<EOFResult>>
    /\ UNCHANGED <<nIssued, delivered, reqs, pc, calls, presult, replies,
                   nowReads, converted, logged, clock>>

\* Lines 43-57: ReadRequest returns another error; Serve returns it wrapped.
ReadRequestError(err) ==
    /\ servePc = "reading"
    /\ nReads' = nReads + 1
    /\ readResult' = err
    /\ servePc' = "returned"
    /\ serveErr' = <<WrapReadError(err)>>
    /\ UNCHANGED <<nIssued, delivered, reqs, pc, calls, presult, replies,
                   nowReads, converted, logged, clock>>

-----------------------------------------------------------------------------
(* server.handleFuseRequest, the goroutine of request i *)

\* The handler calls the provider with req and blocks in the call.
CallProvider(i, req) ==
    /\ logged' = [logged EXCEPT ![i] = Append(@, "Received")]
    /\ calls' = [calls EXCEPT ![i] = Append(@, req)]
    /\ pc' = [pc EXCEPT ![i] = "calling"]
    /\ UNCHANGED <<nIssued, delivered, nReads, readResult, servePc, serveErr,
                   reqs, presult, replies, nowReads, converted, clock>>

\* A handler that logs the unsupported request and returns without replying.
NotSupportedNoReply(i, line) ==
    /\ logged' = [logged EXCEPT ![i] = @ \o <<"Received", line>>]
    /\ pc' = [pc EXCEPT ![i] = "done"]
    /\ UNCHANGED <<nIssued, delivered, nReads, readResult, servePc, serveErr,
                   reqs, calls, presult, replies, nowReads, converted, clock>>

\* Lines 153-157, 183-187 and 213-216: reply ENOSYS without a provider call.
NotSupported(i, line) ==
    /\ logged' = [logged EXCEPT ![i] = @ \o <<"Received", line>>]
    /\ replies' = [replies EXCEPT ![i] = RespondError(@, ENOSYS)]
    /\ pc' = [pc EXCEPT ![i] = "done"]
    /\ UNCHANGED <<nIssued, delivered, nReads, readResult, servePc, serveErr,
                   reqs, calls, presult, nowReads, converted, clock>>

\* Lines 65-81.
HandleInit(i) ==
    /\ pc[i] = "spawned"
    /\ reqs[i].Kind = "Init"
    /\ CallProvider(i, ConvertInitRequest(reqs[i]))

\* A handler without the Statfs case: the request falls to the default case.
HandleStatfsNotSupported(i) ==
    /\ pc[i] = "spawned"
    /\ reqs[i].Kind = "Statfs"
    /\ NotSupported(i, "Unhandled type. Returning ENOSYS.")

\* Lines 65-72 and 93-99.
HandleStatfs(i) ==
    /\ pc[i] = "spawned"
    /\ reqs[i].Kind = "Statfs"
    /\ logged' = [logged EXCEPT ![i] = @ \o <<"Received", "Responding">>]
    /\ replies' = [replies EXCEPT ![i] = Respond(@, StatfsResponse)]
    /\ pc' = [pc EXCEPT ![i] = "done"]
    /\ UNCHANGED <<nIssued, delivered, nReads, readResult, servePc, serveErr,
                   reqs, calls, presult, nowReads, converted, clock>>

\* Lines 65-72 and 101-109.
HandleLookup(i) ==
    /\ pc[i] = "spawned"
    /\ reqs[i].Kind = "Lookup"
    /\ CallProvider(i, ConvertLookupRequest(reqs[i]))

\* A Getattr case that reads the clock when the request arrives, before it
\* calls the provider.
HandleGetattrClockFirst(i) ==
    /\ pc[i] = "spawned"
    /\ reqs[i].Kind = "Getattr"
    /\ logged' = [logged EXCEPT ![i] = Append(@, "Received")]
    /\ nowReads' = [nowReads EXCEPT ![i] = Append(@, clock)]
    /\ calls' = [calls EXCEPT ![i] = Append(@, ConvertGetattrRequest(reqs[i]))]
    /\ pc' = [pc EXCEPT ![i] = "calling"]
    /\ UNCHANGED <<nIssued, delivered, nReads, readResult, servePc, serveErr,
                   reqs, presult, replies, converted, clock>>

\* Lines 65-72 and 128-135.
HandleGetattr(i) ==
    /\ pc[i] = "spawned"
    /\ reqs[i].Kind = "Getattr"
    /\ CallProvider(i, ConvertGetattrRequest(reqs[i]))

\* An Open case without the Dir test of lines 153-157.
HandleOpenNoDirTest(i) ==
    /\ pc[i] = "spawned"
    /\ reqs[i].Kind = "Open"
    /\ CallProvider(i, ConvertOpenRequest(reqs[i]))

\* Lines 65-72 and 151-166.
HandleOpen(i) ==
    /\ pc[i] = "spawned"
    /\ reqs[i].Kind = "Open"
    /\ IF ~reqs[i].Dir
          THEN NotSupported(i, "We don't yet support files. Returning ENOSYS.")
          ELSE CallProvider(i, ConvertOpenRequest(reqs[i]))

\* Lines 65-72 and 181-198.
HandleRead(i) ==
    /\ pc[i] = "spawned"
    /\ reqs[i].Kind = "Read"
    /\ IF ~reqs[i].Dir
          THEN NotSupported(i, "We don't yet support files. Returning ENOSYS.")
          ELSE CallProvider(i, ConvertReadRequest(reqs[i]))

KnownKinds == {"Init", "Statfs", "Lookup", "Getattr", "Open", "Read"}

\* A switch without its default case, whose handler brings the process down
\* on a request type it does not know.
HandleDefaultPanics(i) ==
    /\ pc[i] = "spawned"
    /\ reqs[i].Kind \notin KnownKinds
    /\ logged' = [logged EXCEPT ![i] = Append(@, "Received")]
    /\ pc' = [pc EXCEPT ![i] = "done"]
    /\ servePc' = "returned"
    /\ serveErr' = <<"panic">>
    /\ UNCHANGED <<nIssued, delivered, nReads, readResult, reqs, calls,
                   presult, replies, nowReads, converted, clock>>

\* Lines 65-72 and 213-216.
HandleDefault(i) ==
    /\ pc[i] = "spawned"
    /\ reqs[i].Kind \notin KnownKinds
    /\ NotSupported(i, "Unhandled type. Returning ENOSYS.")

\* The provider method called for request i returns res.
ProviderReturns(i, res) ==
    /\ pc[i] = "calling"
    /\ presult' = [presult EXCEPT ![i] = <<res>>]
    /\ pc' = [pc EXCEPT ![i] = "returned"]
    /\ UNCHANGED <<nIssued, delivered, nReads, readResult, servePc, serveErr,
                   reqs, calls, replies, nowReads, converted, logged, clock>>

\* An error branch that lets the provider's error unwind into the read loop:
\* the handler replies and Serve returns the error.
ReplyProviderErrorAbort(i, err) ==
    /\ logged' = [logged EXCEPT ![i] = Append(@, "Responding")]
    /\ replies' = [replies EXCEPT ![i] = RespondError(@, err)]
    /\ pc' = [pc EXCEPT ![i] = "done"]
    /\ servePc' = "returned"
    /\ serveErr' = <<err>>
    /\ UNCHANGED <<nIssued, delivered, nReads, readResult, reqs, calls,
                   presult, nowReads, converted, clock>>

\* An error branch that replies with a fixed error code in place of the
\* provider's error.
ReplyProviderErrorAsENOSYS(i, err) ==
    /\ logged' = [logged EXCEPT ![i] = Append(@, "Responding")]
    /\ replies' = [replies EXCEPT ![i] = RespondError(@, ENOSYS)]
    /\ pc' = [pc EXCEPT ![i] = "done"]
    /\ UNCHANGED <<nIssued, delivered, nReads, readResult, servePc, serveErr,
                   reqs, calls, presult, nowReads, converted, clock>>

\* An error branch without its return: the handler replies with the error and
\* falls through to the success reply.
ReplyProviderErrorNoReturn(i, err) ==
    /\ logged' = [logged EXCEPT ![i] = @ \o <<"Responding", "Responding">>]
    /\ replies' = [replies EXCEPT
                      ![i] = Respond(RespondError(@, err), InitResponse)]
    /\ pc' = [pc EXCEPT ![i] = "done"]
    /\ UNCHANGED <<nIssued, delivered, nReads, readResult, servePc, serveErr,
                   reqs, calls, presult, nowReads, converted, clock>>

\* if err != nil { log; typed.RespondError(err); return }
\* (lines 82-86, 110-114, 136-140, 167-171, 199-203).
ReplyProviderError(i, err) ==
    /\ logged' = [logged EXCEPT ![i] = Append(@, "Responding")]
    /\ replies' = [replies EXCEPT ![i] = RespondError(@, err)]
    /\ pc' = [pc EXCEPT ![i] = "done"]
    /\ UNCHANGED <<nIssued, delivered, nReads, readResult, servePc, serveErr,
                   reqs, calls, presult, nowReads, converted, clock>>

\* A handler that replies on the request Serve read last, as a goroutine
\* closing over the loop's fuseReq variable would, not on its own request.
ReplySuccessOnLatest(i, fuseResp, nows, conversions) ==
    /\ logged' = [logged EXCEPT ![i] = Append(@, "Responding")]
    /\ replies' = [replies EXCEPT ![Len(reqs)] = Respond(@, fuseResp)]
    /\ nowReads' = [nowReads EXCEPT ![i] = @ \o nows]
    /\ converted' = [converted EXCEPT ![i] = @ + conversions]
    /\ pc' = [pc EXCEPT ![i] = "done"]
    /\ UNCHANGED <<nIssued, delivered, nReads, readResult, servePc, serveErr,
                   reqs, calls, presult, clock>>

\* log; typed.Respond(fuseResp), with the clock readings and the
\* convertAttributes calls made while fuseResp was built.
ReplySuccess(i, fuseResp, nows, conversions) ==
    /\ logged' = [logged EXCEPT ![i] = Append(@, "Responding")]
    /\ replies' = [replies EXCEPT ![i] = Respond(@, fuseResp)]
    /\ nowReads' = [nowReads EXCEPT ![i] = @ \o nows]
    /\ converted' = [converted EXCEPT ![i] = @ + conversions]
    /\ pc' = [pc EXCEPT ![i] = "done"]
    /\ UNCHANGED <<nIssued, delivered, nReads, readResult, servePc, serveErr,
                   reqs, calls, presult, clock>>

\* Lines 82-91.
InitFinish(i) ==
    /\ pc[i] = "returned"
    /\ reqs[i].Kind = "Init"
    /\ IF presult[i][1].err # "nil"
          THEN ReplyProviderError(i, presult[i][1].err)
          ELSE ReplySuccess(i, InitResponse, <<>>, 0)

\* Lines 110-121: on success, the response literal is evaluated up to
\* AttrValid, which reads the clock.
LookupAttrValid(i) ==
    /\ pc[i] = "returned"
    /\ reqs[i].Kind = "Lookup"
    /\ IF presult[i][1].err # "nil"
          THEN ReplyProviderError(i, presult[i][1].err)
          ELSE /\ converted' = [converted EXCEPT ![i] = @ + 1]
               /\ nowReads' = [nowReads EXCEPT ![i] = Append(@, clock)]
               /\ pc' = [pc EXCEPT ![i] = "attrvalid"]
               /\ UNCHANGED <<nIssued, delivered, nReads, readResult, servePc,
                              serveErr, reqs, calls, presult, replies, logged,
                              clock>>

\* Lines 122-126: EntryValid reads the clock again, then the reply is sent.
LookupFinish(i) ==
    /\ pc[i] = "attrvalid"
    /\ ReplySuccess(i,
                    LookupResponse(presult[i][1].resp[1], nowReads[i][1],
                                   clock),
                    <<clock>>, 0)

\* Lines 136-149.
GetattrFinish(i) ==
    /\ pc[i] = "returned"
    /\ reqs[i].Kind = "Getattr"
    /\ IF presult[i][1].err # "nil"
          THEN ReplyProviderError(i, presult[i][1].err)
          ELSE ReplySuccess(i,
                            GetattrResponse(calls[i][1],
                                            presult[i][1].resp[1], clock),
                            <<clock>>, 1)

\* Lines 167-179.
OpenFinish(i) ==
    /\ pc[i] = "returned"
    /\ reqs[i].Kind = "Open"
    /\ IF presult[i][1].err # "nil"
          THEN ReplyProviderError(i, presult[i][1].err)
          ELSE ReplySuccess(i, OpenResponse(presult[i][1].resp[1]), <<>>, 0)

\* Lines 199-211.
ReadFinish(i) ==
    /\ pc[i] = "returned"
    /\ reqs[i].Kind = "Read"
    /\ IF presult[i][1].err # "nil"
          THEN ReplyProviderError(i, presult[i][1].err)
          ELSE ReplySuccess(i, ReadResponse(presult[i][1].resp[1]), <<>>, 0)

-----------------------------------------------------------------------------
(* The clock: timeutil.RealClock(), time passing between any two steps. *)

Tick ==
    /\ clock < MaxTime
    /\ clock' = clock + 1
    /\ UNCHANGED <<nIssued, delivered, nReads, readResult, servePc, serveErr,
                   reqs, pc, calls, presult, replies, nowReads, converted,
                   logged>>

-----------------------------------------------------------------------------

\* The provider method that handler i is blocked in, if any.
PendingOp(i) == IF pc[i] = "calling" THEN calls[i][1].Op ELSE "none"

\* The server on a connection that carries up to MaxReqs requests on the root
\* inode, handled concurrently, with a provider of fixed responses that may
\* fail any call.
Next ==
    \/ \E fuseReq \in RootRequests : ReadRequestOk(fuseReq)
    \/ ReadRequestEOF
    \/ \E err \in TransportErrors : ReadRequestError(err)
    \/ \E i \in Tasks : HandleInit(i)
    \/ \E i \in Tasks : HandleStatfs(i)
    \/ \E i \in Tasks : HandleLookup(i)
    \/ \E i \in Tasks : HandleGetattr(i)
    \/ \E i \in Tasks : HandleOpen(i)
    \/ \E i \in Tasks : HandleRead(i)
    \/ \E i \in Tasks : HandleDefault(i)
    \/ \E i \in Tasks : \E res \in FixedResults(PendingOp(i)) :
          ProviderReturns(i, res)
    \/ \E i \in Tasks : InitFinish(i)
    \/ \E i \in Tasks : LookupAttrValid(i)
    \/ \E i \in Tasks : LookupFinish(i)
    \/ \E i \in Tasks : GetattrFinish(i)
    \/ \E i \in Tasks : OpenFinish(i)
    \/ \E i \in Tasks : ReadFinish(i)
    \/ Tick

Spec == Init /\ [][Next]_vars

\* The server on a connection that carries one request, any of WireRequests,
\* with a provider that may return any of ProviderResults.
NextOne ==
    \/ \E fuseReq \in WireRequests : reqs = <<>> /\ ReadRequestOk(fuseReq)
    \/ ReadRequestEOF
    \/ \E err \in TransportErrors : ReadRequestError(err)
    \/ \E i \in Tasks : HandleInit(i)
    \/ \E i \in Tasks : HandleStatfs(i)
    \/ \E i \in Tasks : HandleLookup(i)
    \/ \E i \in Tasks : HandleGetattr(i)
    \/ \E i \in Tasks : HandleOpen(i)
    \/ \E i \in Tasks : HandleRead(i)
    \/ \E i \in Tasks : HandleDefault(i)
    \/ \E i \in Tasks : \E res \in ProviderResults(PendingOp(i)) :
          ProviderReturns(i, res)
    \/ \E i \in Tasks : InitFinish(i)
    \/ \E i \in Tasks : LookupAttrValid(i)
    \/ \E i \in Tasks : LookupFinish(i)
    \/ \E i \in Tasks : GetattrFinish(i)
    \/ \E i \in Tasks : OpenFinish(i)
    \/ \E i \in Tasks : ReadFinish(i)
    \/ Tick

SpecOne == Init /\ [][NextOne]_vars

-----------------------------------------------------------------------------
(* Fair scheduling: every goroutine that can take a step eventually takes  *)
(* one, and every provider call eventually returns.                        *)

HandlerStep(i) ==
    /\ i \in Tasks
    /\ \/ HandleInit(i)
       \/ HandleStatfs(i)
       \/ HandleLookup(i)
       \/ HandleGetattr(i)
       \/ HandleOpen(i)
       \/ HandleRead(i)
       \/ HandleDefault(i)
       \/ InitFinish(i)
       \/ LookupAttrValid(i)
       \/ LookupFinish(i)
       \/ GetattrFinish(i)
       \/ OpenFinish(i)
       \/ ReadFinish(i)

ProviderCompletes(i) ==
    /\ i \in Tasks
    /\ \E res \in FixedResults(PendingOp(i)) : ProviderReturns(i, res)

FairSpec ==
    /\ Spec
    /\ \A i \in 1..MaxReqs : WF_vars(HandlerStep(i))
    /\ \A i \in 1..MaxReqs : WF_vars(ProviderCompletes(i))

-----------------------------------------------------------------------------
(* Properties *)

IsRespond(r) == r.Type = "Respond"

IsRespondError(r) == r.Type = "RespondError"

InFlight == {i \in Tasks : pc[i] # "done"}

\* C1: every request handed to handleFuseRequest has at most one reply at any
\* time, and exactly one once its handler has finished.
ExactlyOneReply ==
    \A i \in Tasks :
        /\ Len(replies[i]) <= 1
        /\ pc[i] = "done" => Len(replies[i]) = 1

\* C1 witness: two finished handlers, one that replied with Respond after a
\* provider call and one that replied with RespondError.
ExactlyOneReplyWitness ==
    \E i, j \in Tasks :
        /\ pc[i] = "done" /\ pc[j] = "done"
        /\ calls[i] # <<>> /\ Len(replies[i]) = 1 /\ IsRespond(replies[i][1])
        /\ Len(replies[j]) = 1 /\ IsRespondError(replies[j][1])

\* C2: under fair scheduling, every request Serve read is eventually replied
\* to, with a success reply or an error reply.
EventuallyReplied ==
    \A i \in 1..MaxReqs :
        (i \in Tasks) ~> (i \in Tasks /\ replies[i] # <<>>)

\* C2 witness: every request read has been replied to, one of them after a
\* provider call that failed and one after a provider call that succeeded.
EventuallyRepliedWitness ==
    /\ Len(reqs) = 2
    /\ \A i \in Tasks : replies[i] # <<>>
    /\ \E i, j \in Tasks :
          /\ presult[i] # <<>> /\ presult[i][1].err # "nil"
          /\ presult[j] # <<>> /\ presult[j][1].err = "nil"

\* C3: when ReadRequest returns io.EOF, Serve has returned nil, whatever the
\* number of handlers still in flight.
EOFReturnsNil ==
    readResult = "EOF" => servePc = "returned" /\ serveErr = <<"nil">>

\* C3 witness: Serve returned nil on EOF while two handlers are in flight.
EOFReturnsNilWitness ==
    /\ readResult = "EOF"
    /\ serveErr = <<"nil">>
    /\ Cardinality(InFlight) >= 2

\* C4: when ReadRequest returns an error other than io.EOF, Serve returns that
\* error wrapped with "Conn.ReadRequest"; the failed read starts no handler,
\* and no request is read after Serve has returned.
ReadErrorEndsServe ==
    /\ [](readResult \in TransportErrors =>
            /\ servePc = "returned"
            /\ serveErr = <<(<<"Conn.ReadRequest", readResult>>)>>)
    /\ [][(nReads' # nReads /\ readResult' \in TransportErrors) =>
            (reqs' = reqs /\ pc' = pc)]_vars
    /\ [][servePc = "returned" => (nReads' = nReads /\ reqs' = reqs)]_vars

\* C4 witness: Serve returned a wrapped read error after it had started a
\* handler, and that handler has since finished.
ReadErrorEndsServeWitness ==
    /\ readResult \in TransportErrors
    /\ serveErr # <<>>
    /\ serveErr[1][1] = "Conn.ReadRequest"
    /\ \E i \in Tasks : pc[i] = "done"

\* Everything the model records about request i and its handler.
TaskState(i) ==
    <<reqs[i], pc[i], calls[i], presult[i], replies[i], nowReads[i],
      converted[i], logged[i]>>

ProviderFailed(i) == presult[i] # <<>> /\ presult[i][1].err # "nil"

ProviderSucceeded(i) == presult[i] # <<>> /\ presult[i][1].err = "nil"

\* C5: a provider failure is local to its request.  A step in which the
\* provider call of request i returns an error, or in which that error is
\* replied, changes nothing of Serve and nothing of any other request; Serve
\* has returned only if a read returned EOF or a transport error; and a
\* finished request whose own provider call succeeded has a success reply,
\* one whose own call failed has an error reply.
ProviderFailureIsLocal ==
    /\ [][\A i \in Tasks :
            (ProviderFailed(i)' /\ TaskState(i)' # TaskState(i)) =>
                /\ servePc' = servePc
                /\ serveErr' = serveErr
                /\ nReads' = nReads
                /\ readResult' = readResult
                /\ \A j \in Tasks \ {i} : TaskState(j)' = TaskState(j)]_vars
    /\ [](servePc = "returned" =>
            readResult \in {"EOF"} \cup TransportErrors)
    /\ [](\A j \in Tasks :
            pc[j] = "done" /\ presult[j] # <<>> =>
                /\ Len(replies[j]) = 1
                /\ IsRespond(replies[j][1]) <=> ProviderSucceeded(j)
                /\ IsRespondError(replies[j][1]) <=> ProviderFailed(j))

\* C5 witness: the provider failed request 1, which has its error reply; the
\* request read after it got a success reply from its own provider call, and
\* Serve is still reading.
ProviderFailureIsLocalWitness ==
    /\ Len(reqs) = 2
    /\ ProviderFailed(1) /\ pc[1] = "done"
    /\ ProviderSucceeded(2) /\ pc[2] = "done" /\ IsRespond(replies[2][1])
    /\ servePc = "reading"

\* C6: when the provider call of a request returns error e, the request gets
\* no success reply, no convertAttributes call and no clock reading, and its
\* single reply is RespondError(e).
ErrorPassthrough ==
    \A i \in Tasks :
        ProviderFailed(i) =>
            /\ \A k \in 1..Len(replies[i]) : ~IsRespond(replies[i][k])
            /\ converted[i] = 0
            /\ nowReads[i] = <<>>
            /\ pc[i] = "done" =>
                  replies[i] = <<[Type |-> "RespondError",
                                  Err |-> presult[i][1].err]>>

\* C6 witness: LookUpInode failed with ENOENT for the name "missing" under
\* parent inode 1, and the handler has finished.
ErrorPassthroughWitness ==
    \E i \in Tasks :
        /\ calls[i] = <<[Op |-> "LookUpInode", Parent |-> 1,
                         Name |-> "missing"]>>
        /\ ProviderFailed(i)
        /\ presult[i][1].err = "ENOENT"
        /\ pc[i] = "done"

DirUnset(i) == reqs[i].Kind \in {"Open", "Read"} /\ ~reqs[i].Dir

\* C7: an Open or Read request with Dir unset never reaches the provider and
\* is answered with RespondError(ENOSYS).
DirUnsetNotSupported ==
    \A i \in Tasks :
        DirUnset(i) =>
            /\ calls[i] = <<>>
            /\ presult[i] = <<>>
            /\ pc[i] \in {"spawned", "done"}
            /\ pc[i] = "done" =>
                  replies[i] = <<[Type |-> "RespondError", Err |-> "ENOSYS"]>>

\* C7 witness: an Open and a Read request with Dir unset have both been
\* answered.
DirUnsetNotSupportedWitness ==
    \E i, j \in Tasks :
        /\ reqs[i].Kind = "Open" /\ DirUnset(i) /\ pc[i] = "done"
        /\ reqs[j].Kind = "Read" /\ DirUnset(j) /\ pc[j] = "done"

UnknownKind(i) ==
    reqs[i].Kind \notin {"Init", "Statfs", "Lookup", "Getattr", "Open", "Read"}

\* C8: a request of a type outside the six known ones never reaches the
\* provider and is answered with RespondError(ENOSYS); its handler changes
\* nothing of Serve, which is still reading as long as no read has returned
\* EOF or an error.
UnknownKindNotSupported ==
    /\ [](\A i \in Tasks :
            UnknownKind(i) =>
                /\ calls[i] = <<>>
                /\ pc[i] \in {"spawned", "done"}
                /\ pc[i] = "done" =>
                      replies[i] = <<[Type |-> "RespondError",
                                      Err |-> "ENOSYS"]>>
                /\ readResult = "nil" => servePc = "reading")
    /\ [][\A i \in Tasks :
            (UnknownKind(i) /\ TaskState(i)' # TaskState(i)) =>
                /\ servePc' = servePc
                /\ serveErr' = serveErr]_vars

\* C8 witness: the first request was of an unknown type and has been
\* answered; Serve has read a second request, which got a success reply from
\* the provider's result.
UnknownKindNotSupportedWitness ==
    /\ Len(reqs) = 2
    /\ UnknownKind(1) /\ pc[1] = "done"
    /\ ProviderSucceeded(2) /\ pc[2] = "done" /\ IsRespond(replies[2][1])

\* The success reply of request i, once sent.
SuccessReply(i) == replies[i][1].Resp

HasSuccessReply(i, kind) ==
    /\ replies[i] # <<>>
    /\ IsRespond(replies[i][1])
    /\ replies[i][1].Resp.Kind = kind

\* C9: AttrValid of a Lookup or Getattr reply is the provider's
\* AttributesExpiration minus the clock reading taken when the response was
\* built (expiration 5 and reading 2 give 3), and EntryValid of a Lookup reply
\* is EntryExpiration minus the reading taken for it.
ValidityIsExpirationMinusNow ==
    \A i \in Tasks :
        /\ HasSuccessReply(i, "GetattrResponse") =>
              /\ Len(nowReads[i]) = 1
              /\ SuccessReply(i).AttrValid =
                    presult[i][1].resp[1].AttributesExpiration - nowReads[i][1]
        /\ HasSuccessReply(i, "LookupResponse") =>
              /\ Len(nowReads[i]) = 2
              /\ SuccessReply(i).AttrValid =
                    presult[i][1].resp[1].AttributesExpiration - nowReads[i][1]
              /\ SuccessReply(i).EntryValid =
                    presult[i][1].resp[1].EntryExpiration - nowReads[i][2]

\* C9 witness: a Lookup reply built at clock reading 2 from
\* AttributesExpiration 5 and EntryExpiration 4 carries AttrValid 3 and
\* EntryValid 2.
ValidityIsExpirationMinusNowWitness ==
    \E i \in Tasks :
        /\ HasSuccessReply(i, "LookupResponse")
        /\ presult[i][1].resp[1].AttributesExpiration = 5
        /\ presult[i][1].resp[1].EntryExpiration = 4
        /\ nowReads[i] = <<2, 2>>
        /\ SuccessReply(i).AttrValid = 3
        /\ SuccessReply(i).EntryValid = 2

\* C10: the validity durations of every Lookup and Getattr success reply are
\* at least zero.
ValidityNeverNegative ==
    \A i \in Tasks :
        /\ HasSuccessReply(i, "GetattrResponse") =>
              SuccessReply(i).AttrValid >= 0
        /\ HasSuccessReply(i, "LookupResponse") =>
              /\ SuccessReply(i).AttrValid >= 0
              /\ SuccessReply(i).EntryValid >= 0

\* The type of response that answers a request type on success.
ResponseKindOf(kind) ==
    CASE kind = "Init" -> "InitResponse"
      [] kind = "Statfs" -> "StatfsResponse"
      [] kind = "Lookup" -> "LookupResponse"
      [] kind = "Getattr" -> "GetattrResponse"
      [] kind = "Open" -> "OpenResponse"
      [] kind = "Read" -> "ReadResponse"
      [] OTHER -> "none"

\* Request i has exactly one reply, the one its own type and its own provider
\* result determine: ENOSYS for an unsupported request, the provider's error
\* if its call failed, and otherwise a success response of its own type.
HasOwnReply(i) ==
    /\ Len(replies[i]) = 1
    /\ IF UnknownKind(i) \/ DirUnset(i)
          THEN replies[i][1] = [Type |-> "RespondError", Err |-> "ENOSYS"]
          ELSE IF ProviderFailed(i)
          THEN replies[i][1] =
                   [Type |-> "RespondError", Err |-> presult[i][1].err]
          ELSE /\ IsRespond(replies[i][1])
               /\ replies[i][1].Resp.Kind = ResponseKindOf(reqs[i].Kind)
               /\ reqs[i].Kind # "Statfs" => ProviderSucceeded(i)

\* C11: requests may be replied to out of read order, and then each still has
\* exactly one reply, its own.  A replied request has its own reply, and in a
\* step taken while a later request j has its reply and an earlier request i
\* has none, the reply of j stays as it is and i gets no reply but its own.
RepliesAreIndependentOfOrder ==
    /\ [](\A i \in Tasks : replies[i] # <<>> => HasOwnReply(i))
    /\ [][\A i, j \in Tasks :
            (i < j /\ replies[i] = <<>> /\ replies[j] # <<>>) =>
                /\ replies'[j] = replies[j]
                /\ replies'[i] # <<>> => HasOwnReply(i)']_vars

\* C11 witness: request 2, read second, has the success reply of its provider
\* call while the provider call of request 1 has not returned.
RepliesAreIndependentOfOrderWitness ==
    /\ Len(reqs) = 2
    /\ pc[1] = "calling"
    /\ replies[1] = <<>>
    /\ ProviderSucceeded(2) /\ HasOwnReply(2)

\* C12: a Statfs request is answered with a success reply that carries the
\* all-zero statistics response; the provider is never called for it and it
\* is never answered with an error.
StatfsAlwaysSucceeds ==
    \A i \in Tasks :
        reqs[i].Kind = "Statfs" =>
            /\ calls[i] = <<>>
            /\ presult[i] = <<>>
            /\ \A k \in 1..Len(replies[i]) :
                   replies[i][k] =
                       [Type |-> "Respond",
                        Resp |-> [Kind |-> "StatfsResponse", Blocks |-> 0,
                                  Bfree |-> 0, Bavail |-> 0, Files |-> 0,
                                  Ffree |-> 0, Bsize |-> 0, Namelen |-> 0,
                                  Frsize |-> 0]]
            /\ pc[i] = "done" <=> Len(replies[i]) = 1
            /\ pc[i] \in {"spawned", "done"}

\* C12 witness: a Statfs request has been answered while the provider fails
\* another request.
StatfsAlwaysSucceedsWitness ==
    \E i, j \in Tasks :
        /\ reqs[i].Kind = "Statfs"
        /\ pc[i] = "done"
        /\ IsRespond(replies[i][1])
        /\ ProviderFailed(j)

\* C14: one sequential read stage.  At most one ReadRequest call is
\* outstanding, and a new call is made only when every earlier one has
\* returned; the goroutines are started in the order of the transport: the
\* i-th goroutine handles the i-th request handed out, and a new goroutine
\* comes after all those started before it.
SequentialReadStage ==
    /\ [](nIssued - nReads \in {0, 1})
    /\ [](servePc = "reading" <=> nIssued - nReads = 1)
    /\ [](reqs = delivered /\ Len(pc) = Len(delivered))
    /\ [][nIssued' # nIssued =>
            nIssued' = nIssued + 1 /\ nReads' = nIssued]_vars
    /\ [][Len(pc') # Len(pc) =>
            /\ delivered' = Append(delivered, delivered'[Len(delivered')])
            /\ reqs' = Append(reqs, delivered'[Len(delivered')])
            /\ pc' = Append(pc, "spawned")]_vars

\* C14 witness: two different requests were read and the goroutine of the
\* first is still running when the second has been started.
SequentialReadStageWitness ==
    /\ Len(delivered) = 2
    /\ delivered[1] # delivered[2]
    /\ pc[1] \in {"spawned", "calling"}
    /\ pc[2] = "spawned"
    /\ nIssued = 3 /\ nReads = 2

\* C15: a Lookup or Getattr handler reads the clock only after its provider
\* call has returned successfully, never before or during the call: a handler
\* that has not got its provider result has no reading, a reading is taken
\* only in a step that starts after a successful return and is the time of
\* that step, and time never runs backwards, so the time that passed during
\* the call is part of what is subtracted.
ClockReadAfterProvider ==
    /\ [](\A i \in Tasks :
            /\ pc[i] \in {"spawned", "calling"} => nowReads[i] = <<>>
            /\ nowReads[i] # <<>> =>
                   /\ reqs[i].Kind \in {"Lookup", "Getattr"}
                   /\ ProviderSucceeded(i))
    /\ [][\A i \in Tasks :
            nowReads'[i] # nowReads[i] =>
                /\ pc[i] \in {"returned", "attrvalid"}
                /\ ProviderSucceeded(i)
                /\ presult'[i] = presult[i]
                /\ nowReads'[i] = Append(nowReads[i], clock)]_vars
    /\ [][clock' >= clock]_vars

\* C15 witness: a Getattr reply whose provider returned expiration 5 was
\* built from a clock reading of 2, taken after the return, and carries 3.
ClockReadAfterProviderWitness ==
    \E i \in Tasks :
        /\ HasSuccessReply(i, "GetattrResponse")
        /\ presult[i][1].resp[1].AttributesExpiration = 5
        /\ nowReads[i] = <<2>>
        /\ SuccessReply(i).AttrValid = 3

\* C16: AttrValid and EntryValid of a Lookup reply come from one clock
\* reading: when the provider returns equal expirations, the two durations
\* are equal.
LookupValiditiesFromOneReading ==
    \A i \in Tasks :
        (/\ HasSuccessReply(i, "LookupResponse")
         /\ presult[i][1].resp[1].AttributesExpiration =
                presult[i][1].resp[1].EntryExpiration) =>
            SuccessReply(i).AttrValid = SuccessReply(i).EntryValid

\* C16, as the code has it: a Lookup reply is built from two clock readings,
\* the one for AttrValid taken first.  When the provider returns equal
\* expirations, AttrValid exceeds EntryValid by exactly the time that passed
\* between the two readings, so EntryValid is at most AttrValid, and the two
\* are equal when the clock did not advance in between.
LookupValiditiesFromTwoReadings ==
    \A i \in Tasks :
        HasSuccessReply(i, "LookupResponse") =>
            /\ Len(nowReads[i]) = 2
            /\ nowReads[i][1] <= nowReads[i][2]
            /\ presult[i][1].resp[1].AttributesExpiration =
                   presult[i][1].resp[1].EntryExpiration =>
                   /\ SuccessReply(i).AttrValid - SuccessReply(i).EntryValid =
                          nowReads[i][2] - nowReads[i][1]
                   /\ SuccessReply(i).EntryValid <= SuccessReply(i).AttrValid
                   /\ nowReads[i][1] = nowReads[i][2] =>
                          SuccessReply(i).AttrValid =
                              SuccessReply(i).EntryValid

\* C16 witness: the provider returned both expirations as 5, the clock went
\* from 1 to 2 between the two readings, and the reply carries AttrValid 4
\* and EntryValid 3.
LookupValiditiesFromTwoReadingsWitness ==
    \E i \in Tasks :
        /\ HasSuccessReply(i, "LookupResponse")
        /\ presult[i][1].resp[1].AttributesExpiration = 5
        /\ presult[i][1].resp[1].EntryExpiration = 5
        /\ nowReads[i] = <<1, 2>>
        /\ SuccessReply(i).AttrValid = 4
        /\ SuccessReply(i).EntryValid = 3

\* The request types whose case calls the provider: Init, Lookup, Getattr,
\* and Open and Read with Dir set.
IsForwarded(r) ==
    \/ r.Kind \in {"Init", "Lookup", "Getattr"}
    \/ r.Kind \in {"Open", "Read"} /\ r.Dir

\* C17: a request leads to at most one provider call, none for a request
\* that is not forwarded and exactly one, made and returned before the reply,
\* for a forwarded one.  The call is the method of the request's type with
\* the request's own identifiers: Init(uid, gid), LookUpInode(node as parent,
\* name), GetInodeAttributes(node), OpenDir(node, flags) and ReadDir(node,
\* handle, offset, size).
OneProviderCallWithOwnArguments ==
    /\ [](\A i \in Tasks :
        LET r == reqs[i] IN
            /\ Len(calls[i]) <= 1
            /\ ~IsForwarded(r) => calls[i] = <<>>
            /\ (IsForwarded(r) /\ replies[i] # <<>>) =>
                   Len(calls[i]) = 1 /\ Len(presult[i]) = 1
            /\ (calls[i] # <<>> /\ r.Kind = "Init") =>
                   calls[i][1] = [Op |-> "Init", Uid |-> r.Header.Uid,
                                  Gid |-> r.Header.Gid]
            /\ (calls[i] # <<>> /\ r.Kind = "Lookup") =>
                   calls[i][1] = [Op |-> "LookUpInode",
                                  Parent |-> r.Header.Node, Name |-> r.Name]
            /\ (calls[i] # <<>> /\ r.Kind = "Getattr") =>
                   calls[i][1] = [Op |-> "GetInodeAttributes",
                                  Inode |-> r.Header.Node]
            /\ (calls[i] # <<>> /\ r.Kind = "Open") =>
                   calls[i][1] = [Op |-> "OpenDir", Inode |-> r.Header.Node,
                                  Flags |-> r.Flags]
            /\ (calls[i] # <<>> /\ r.Kind = "Read") =>
                   calls[i][1] = [Op |-> "ReadDir", Inode |-> r.Header.Node,
                                  Handle |-> r.Handle, Offset |-> r.Offset,
                                  Size |-> r.Size])
    /\ [][\A i \in Tasks :
            calls'[i] # calls[i] =>
                /\ calls[i] = <<>>
                /\ replies[i] = <<>> /\ replies'[i] = <<>>]_vars

\* C17 witness: a Read request with Dir set on inode 2 was answered after
\* one call ReadDir(2, handle 5, offset 6, size 7).
OneProviderCallWithOwnArgumentsWitness ==
    \E i \in Tasks :
        /\ reqs[i].Kind = "Read" /\ reqs[i].Dir /\ reqs[i].Header.Node = 2
        /\ Len(replies[i]) = 1
        /\ calls[i] = <<[Op |-> "ReadDir", Inode |-> 2, Handle |-> 5,
                         Offset |-> 6, Size |-> 7]>>

\* The attributes attr of a success reply are those the provider returned,
\* field by field, under the inode number inode.
CarriesAttributes(attr, inode, provided) ==
    /\ attr.Inode = inode
    /\ attr.Size = provided.Size
    /\ attr.Mode = provided.Mode
    /\ attr.Atime = provided.Atime
    /\ attr.Mtime = provided.Mtime
    /\ attr.Crtime = provided.Crtime
    /\ attr.Uid = provided.Uid
    /\ attr.Gid = provided.Gid

\* C18: a success reply carries what the provider returned, unchanged.  A
\* Lookup reply has the provider's child as Node and as Attr.Inode and the
\* provider's generation; a Getattr reply has the request's inode as
\* Attr.Inode; both have the provider's size, mode, three timestamps, uid and
\* gid; an Open reply has the provider's handle and a Read reply the
\* provider's data; an Init reply is the empty acknowledgment whatever the
\* provider returned.
SuccessReplyCarriesProviderResult ==
    \A i \in Tasks :
        (replies[i] # <<>> /\ IsRespond(replies[i][1])
            /\ reqs[i].Kind # "Statfs") =>
        LET reply == replies[i][1].Resp
            resp == presult[i][1].resp[1]
        IN  /\ ProviderSucceeded(i)
            /\ reqs[i].Kind = "Init" => reply = [Kind |-> "InitResponse"]
            /\ reqs[i].Kind = "Lookup" =>
                   /\ reply.Kind = "LookupResponse"
                   /\ reply.Node = resp.Child
                   /\ reply.Generation = resp.Generation
                   /\ CarriesAttributes(reply.Attr, resp.Child,
                                        resp.Attributes)
            /\ reqs[i].Kind = "Getattr" =>
                   /\ reply.Kind = "GetattrResponse"
                   /\ CarriesAttributes(reply.Attr, reqs[i].Header.Node,
                                        resp.Attributes)
            /\ reqs[i].Kind = "Open" =>
                   reply = [Kind |-> "OpenResponse", Handle |-> resp.Handle]
            /\ reqs[i].Kind = "Read" =>
                   reply = [Kind |-> "ReadResponse", Data |-> resp.Data]

\* C18 witness: the provider answered a Getattr request on inode 2 with the
\* attributes of another inode, with Atime 42 and Mtime 43, and the reply
\* carries them under Attr.Inode 2.
SuccessReplyCarriesProviderResultWitness ==
    \E i \in Tasks :
        /\ HasSuccessReply(i, "GetattrResponse")
        /\ reqs[i].Header.Node = 2
        /\ presult[i][1].resp[1].Attributes = AttributesOf(4)
        /\ SuccessReply(i).Attr.Inode = 2
        /\ SuccessReply(i).Attr.Atime = 42
        /\ SuccessReply(i).Attr.Mtime = 43

\* C19: there is no admission control.  After it has started a handler Serve
\* is back in ReadRequest; while Serve is reading (and fewer than MaxReqs
\* requests were read) every request can be read, whatever the number of
\* handlers running; and a handler that is not inside its provider call can
\* take its next step whatever the other handlers do, so a provider call that
\* never returns holds up nothing but its own request.
NoAdmissionControl ==
    /\ [](servePc = "reading" /\ Len(reqs) < MaxReqs =>
            \A r \in RootRequests : ENABLED ReadRequestOk(r))
    /\ [](\A i \in Tasks :
            /\ pc[i] \notin {"calling", "done"} => ENABLED HandlerStep(i)
            /\ pc[i] = "calling" => ENABLED ProviderCompletes(i))
    /\ [][Len(reqs') # Len(reqs) =>
            /\ servePc' = "reading"
            /\ nIssued' = nIssued + 1
            /\ \A i \in Tasks :
                   pc'[i] = pc[i] /\ replies'[i] = replies[i]]_vars

\* C19 witness: the provider call of the first request has not returned,
\* every request after it was read and replied, and Serve is reading.
NoAdmissionControlWitness ==
    /\ Len(reqs) = MaxReqs
    /\ pc[1] = "calling"
    /\ \A j \in 2..Len(reqs) : pc[j] = "done" /\ Len(replies[j]) = 1
    /\ servePc = "reading"

\* C20: Serve does not wait for its handlers when it returns.  While Serve is
\* reading it can return on io.EOF and on every transport error, whatever its
\* handlers are doing; what it returns is fixed by what ReadRequest returned
\* alone (nil for io.EOF, the wrapped error otherwise); the returning step
\* changes nothing of any handler, and no handler step changes the result
\* afterwards.
ServeReturnsWithoutWaiting ==
    /\ [](servePc = "reading" =>
            /\ ENABLED ReadRequestEOF
            /\ \A err \in TransportErrors : ENABLED ReadRequestError(err))
    /\ [](servePc = "returned" =>
            serveErr = IF readResult = "EOF"
                          THEN <<"nil">>
                          ELSE <<<<"Conn.ReadRequest", readResult>>>>)
    /\ [][servePc' # servePc =>
            /\ pc' = pc /\ calls' = calls /\ presult' = presult
            /\ replies' = replies]_vars
    /\ [][servePc = "returned" =>
            /\ servePc' = servePc
            /\ serveErr' = serveErr
            /\ readResult' = readResult]_vars

\* C20 witness: Serve has returned nil on io.EOF while one accepted request
\* is inside its provider call, not replied, and the provider has failed
\* another.
ServeReturnsWithoutWaitingWitness ==
    /\ servePc = "returned"
    /\ serveErr = <<"nil">>
    /\ \E i, j \in Tasks :
           /\ pc[i] = "calling" /\ replies[i] = <<>>
           /\ ProviderFailed(j)

====
